---- MODULE Spec2Model ----
(***************************************************************************)
(* Model of the sparse dot-product kernels (jni/src/dp.cpp) and of the     *)
(* thread-aware timing aggregation (jni/src/Timer.h,                       *)
(* jni/src/StopTimerAggregator.{h,cpp}).                                   *)
(*                                                                         *)
(* C arrays are 0-based; a C array a of length n is the sequence a with    *)
(* a[i] in C being a[i+1] here.  float arithmetic is modelled exactly      *)
(* (integers), int arithmetic keeps its 32-bit width.                      *)
(***************************************************************************)
EXTENDS Integers, Sequences, FiniteSets, TLC

VARIABLES
    \* ---- kernel calls (dp.cpp) ----
    tokens,      \* const int16_t* tokens, length v1_size
    values1,     \* sparse weights, length v1_size
    values2,     \* dense vector, length v2_size
    called,      \* which kernel has been applied to the inputs ("none" before)
    ret,         \* what the call returned: [value, i, reads]
    \* ---- one long run of the int8 kernel, iteration by iteration ----
    acc,         \* [pc, n, a, b, i, result, exact]
    \* ---- timing aggregation (Timer.h, StopTimerAggregator.{h,cpp}) ----
    stopTimerAggregator,  \* thread_local collector_t, one per thread
    collection,  \* StopTimerAggregator::collection
    mutex_,      \* StopTimerAggregator::mutex_: the thread holding it, or NoThread
    col,         \* per thread, its position in collect(): [pc, todo, group, key, old]
    rep,         \* a report() call: [pc, left, group, total, out], and whether
                 \* a collect merged since it began (start: the collection then,
                 \* quiet: no collect was running then, expected: hist.expected then)
    hist,        \* history of the calls made (not program state)
    \* ---- memory outside the arrays ----
    junk,        \* the value a read past the ends of values2 yields
    \* ---- timers (Timer.h) on thread 1 ----
    tm,          \* TIMER_DEBUG, the clock, a Timer and a StopTimerT
    \* ---- JNI bridge (main.cpp) ----
    jni          \* the last bridge call: buffers acquired and released, result

kernelVars == <<tokens, values1, values2, called, ret>>
aggVars == <<stopTimerAggregator, collection, mutex_, col, rep, hist>>
vars == <<tokens, values1, values2, called, ret, acc,
          stopTimerAggregator, collection, mutex_, col, rep, hist,
          junk, tm, jni>>

-----------------------------------------------------------------------------
(* Bounds of the model.                                                    *)

\* longest sparse vector given to the scalar kernels
MaxLen == 8
\* longest dense vector
MaxDense == 2
\* entries that follow the first whole SIMD group
MaxTail == 2
\* products accumulated by the long int8 run
MaxProducts == 10000
\* calls made in a run of the timing aggregation, over all threads
\* (AggregatedReporter::report, StopTimerAggregator::collect and ::report)
MaxCalls == 4

\* tokens given to the scalar kernels: 0 and 1 index the dense vector when it
\* is long enough, 2 is past the end of every dense vector of length <= 2
ScalarTokens == {0, 1, 2}
\* int16_t tokens that include a negative one
SignedTokens == {-1, 0}
\* what a read outside the dense vector may find
JunkValues == {0, 1000}
\* tokens given to the SIMD kernel (1 is out of range for a dense length 1)
SimdTokens == {0, 1}

-----------------------------------------------------------------------------
(* Program constants.                                                      *)

unroll_factor == 4
simd_width == 8
INT8_MIN == -128
INT8_MAX == 127

INT_MAX == 2147483647
INT_MIN == (-INT_MAX) - 1

\* r + p in a 16-bit accumulator
Int16Add(r, p) == ((r + p + 32768) % 65536) - 32768

\* r + p in a 32-bit int: the sum modulo 2^32, in [INT_MIN, INT_MAX].  Written
\* so that no intermediate value leaves that range.
Int32Add(r, p) ==
    IF p > 0 /\ r > INT_MAX - p THEN (((r - INT_MAX) - 1) + p) + INT_MIN
    ELSE IF p < 0 /\ r < INT_MIN - p THEN (((r - INT_MIN) + p) + INT_MAX) + 1
    ELSE r + p

-----------------------------------------------------------------------------
(* The kernels, computed as the code computes them.  A loop state is       *)
(* [i, result, reads, brk]: the index, the accumulator, the set of array   *)
(* elements read so far (<<array, index>>) and whether a break was taken.  *)

\* result += values1[i] * values2[tokens[i]] in float (exact) or int (32-bit)
Accumulate(kind, result, a, b) ==
    IF kind = "int8" THEN Int32Add(result, a * b) ELSE result + a * b

\* values2[tok]: the element when tok indexes the array; a read outside it is
\* undefined behaviour and yields junk, whatever the memory there holds
Values2At(v2, tok) ==
    IF tok >= 0 /\ tok < Len(v2) THEN v2[tok + 1] ELSE junk

\* One guarded element of the scalar loops:
\*   if (tokens[idx] >= v2_size) break;
\*   result += values1[idx] * values2[tokens[idx]];
Element(kind, tk, v1, v2, v2_size, result, reads, idx) ==
    LET tok == tk[idx + 1] IN
    IF tok >= v2_size
    THEN [brk |-> TRUE, result |-> result,
          reads |-> reads \cup {<<"tokens", idx>>}]
    ELSE [brk |-> FALSE,
          result |-> Accumulate(kind, result, v1[idx + 1], Values2At(v2, tok)),
          reads |-> reads \cup {<<"tokens", idx>>, <<"values1", idx>>,
                                <<"values2", tok>>}]

\* an unrolled iteration whose break at the second element forgets ++i
UnrolledBlockNoAdvance(kind, tk, v1, v2, v2_size, st) ==
    LET i  == st.i
        e0 == Element(kind, tk, v1, v2, v2_size, st.result, st.reads, i)
        e1 == Element(kind, tk, v1, v2, v2_size, e0.result, e0.reads, i + 1)
        e2 == Element(kind, tk, v1, v2, v2_size, e1.result, e1.reads, i + 2)
        e3 == Element(kind, tk, v1, v2, v2_size, e2.result, e2.reads, i + 3)
    IN  IF e0.brk THEN [i |-> i, result |-> e0.result, reads |-> e0.reads, brk |-> TRUE]
        ELSE IF e1.brk THEN [i |-> i, result |-> e1.result, reads |-> e1.reads, brk |-> TRUE]
        ELSE IF e2.brk THEN [i |-> i + 2, result |-> e2.result, reads |-> e2.reads, brk |-> TRUE]
        ELSE IF e3.brk THEN [i |-> i + 3, result |-> e3.result, reads |-> e3.reads, brk |-> TRUE]
        ELSE [i |-> i + unroll_factor, result |-> e3.result, reads |-> e3.reads, brk |-> FALSE]

\* One iteration of the unrolled main loop: four guarded elements, a break at
\* position j leaves i advanced by j.
UnrolledBlock(kind, tk, v1, v2, v2_size, st) ==
    LET i  == st.i
        e0 == Element(kind, tk, v1, v2, v2_size, st.result, st.reads, i)
        e1 == Element(kind, tk, v1, v2, v2_size, e0.result, e0.reads, i + 1)
        e2 == Element(kind, tk, v1, v2, v2_size, e1.result, e1.reads, i + 2)
        e3 == Element(kind, tk, v1, v2, v2_size, e2.result, e2.reads, i + 3)
    IN  IF e0.brk THEN [i |-> i, result |-> e0.result, reads |-> e0.reads, brk |-> TRUE]
        ELSE IF e1.brk THEN [i |-> i + 1, result |-> e1.result, reads |-> e1.reads, brk |-> TRUE]
        ELSE IF e2.brk THEN [i |-> i + 2, result |-> e2.result, reads |-> e2.reads, brk |-> TRUE]
        ELSE IF e3.brk THEN [i |-> i + 3, result |-> e3.result, reads |-> e3.reads, brk |-> TRUE]
        ELSE [i |-> i + unroll_factor, result |-> e3.result, reads |-> e3.reads, brk |-> FALSE]

\* for (; i < limit; i += unroll_factor) { ... }
RECURSIVE MainLoop(_, _, _, _, _, _, _)
MainLoop(kind, tk, v1, v2, v2_size, limit, st) ==
    IF st.i < limit
    THEN LET b == UnrolledBlock(kind, tk, v1, v2, v2_size, st)
         IN  IF b.brk THEN b ELSE MainLoop(kind, tk, v1, v2, v2_size, limit, b)
    ELSE st

\* for (; i < v1_size; ++i) { if (tokens[i] >= v2_size) break; result += ...; }
RECURSIVE RemainderLoop(_, _, _, _, _, _, _)
RemainderLoop(kind, tk, v1, v2, v1_size, v2_size, st) ==
    IF st.i < v1_size
    THEN LET e == Element(kind, tk, v1, v2, v2_size, st.result, st.reads, st.i)
         IN  IF e.brk
             THEN [i |-> st.i, result |-> e.result, reads |-> e.reads, brk |-> TRUE]
             ELSE RemainderLoop(kind, tk, v1, v2, v1_size, v2_size,
                      [i |-> st.i + 1, result |-> e.result, reads |-> e.reads,
                       brk |-> FALSE])
    ELSE st

\* a scalar kernel whose early exit tests v1_size only
ScalarKernelNoDenseCheck(kind, tk, v1, v2, v1_size, v2_size) ==
    IF v1_size = 0
    THEN [value |-> 0, i |-> 0, reads |-> {}]
    ELSE LET limit == v1_size - (v1_size % unroll_factor)
             st0   == [i |-> 0, result |-> 0, reads |-> {}, brk |-> FALSE]
             st1   == MainLoop(kind, tk, v1, v2, v2_size, limit, st0)
             st2   == RemainderLoop(kind, tk, v1, v2, v1_size, v2_size,
                                    [st1 EXCEPT !.brk = FALSE])
         IN  [value |-> st2.result, i |-> st2.i, reads |-> st2.reads]

\* The body shared by the two scalar kernels (they differ in element types).
ScalarKernel(kind, tk, v1, v2, v1_size, v2_size) ==
    IF v1_size = 0 \/ v2_size = 0
    THEN [value |-> 0, i |-> 0, reads |-> {}]
    ELSE LET limit == v1_size - (v1_size % unroll_factor)
             st0   == [i |-> 0, result |-> 0, reads |-> {}, brk |-> FALSE]
             st1   == MainLoop(kind, tk, v1, v2, v2_size, limit, st0)
             \* the remainder loop runs after the main loop, also after a break
             st2   == RemainderLoop(kind, tk, v1, v2, v1_size, v2_size,
                                    [st1 EXCEPT !.brk = FALSE])
         IN  [value |-> st2.result, i |-> st2.i, reads |-> st2.reads]

sparse_dot_product_native(tk, v1, v2, v1_size, v2_size) ==
    ScalarKernel("float", tk, v1, v2, v1_size, v2_size)

sparse_dot_product_native_int8(tk, v1, v2, v1_size, v2_size) ==
    ScalarKernel("int8", tk, v1, v2, v1_size, v2_size)

\* a SIMD group that stops gathering at its first out-of-range token
SimdGroupEarlyExit(tk, v1, v2, v2_size, st) ==
    LET i == st.i
        Live(j) == \A k \in 0..j : tk[i + k + 1] < v2_size
        temp == [j \in 0..(simd_width - 1) |->
                    IF Live(j) THEN Values2At(v2, tk[i + j + 1]) ELSE 0]
    IN  [i |-> i + simd_width,
         sum |-> [j \in 0..(simd_width - 1) |-> st.sum[j] + v1[i + j + 1] * temp[j]],
         reads |-> st.reads
                   \cup {<<"values1", i + j>> : j \in 0..(simd_width - 1)}
                   \cup {<<"tokens", i + j>> : j \in 0..(simd_width - 1)}
                   \cup {<<"values2", tk[i + j + 1]>> :
                              j \in {k \in 0..(simd_width - 1) : Live(k)}}]

\* One SIMD group: temp[j] is values2[tokens[i+j]] when the token is below
\* v2_size and 0.0f otherwise; lane j of sum gets values1[i+j] * temp[j] added.
SimdGroup(tk, v1, v2, v2_size, st) ==
    LET i == st.i
        InRange(j) == tk[i + j + 1] < v2_size
        temp == [j \in 0..(simd_width - 1) |->
                    IF InRange(j) THEN Values2At(v2, tk[i + j + 1]) ELSE 0]
    IN  [i |-> i + simd_width,
         sum |-> [j \in 0..(simd_width - 1) |-> st.sum[j] + v1[i + j + 1] * temp[j]],
         reads |-> st.reads
                   \cup {<<"values1", i + j>> : j \in 0..(simd_width - 1)}
                   \cup {<<"tokens", i + j>> : j \in 0..(simd_width - 1)}
                   \cup {<<"values2", tk[i + j + 1]>> :
                              j \in {k \in 0..(simd_width - 1) : InRange(k)}}]

\* for (; i < simd_limit; i += simd_width) { ... }
RECURSIVE SimdLoop(_, _, _, _, _, _)
SimdLoop(tk, v1, v2, v2_size, simd_limit, st) ==
    IF st.i < simd_limit
    THEN SimdLoop(tk, v1, v2, v2_size, simd_limit, SimdGroup(tk, v1, v2, v2_size, st))
    ELSE st

\* a horizontal add that leaves the last lane out
HorizontalAddSeven(sum) ==
    sum[0] + sum[1] + sum[2] + sum[3] + sum[4] + sum[5] + sum[6]

\* result[0] + result[1] + ... + result[7]
HorizontalAdd(sum) ==
    sum[0] + sum[1] + sum[2] + sum[3] + sum[4] + sum[5] + sum[6] + sum[7]

sparse_dot_product_simd(tk, v1, v2, v1_size, v2_size) ==
    IF v1_size = 0 \/ v2_size = 0
    THEN [value |-> 0, i |-> 0, reads |-> {}]
    ELSE LET simd_limit == v1_size - (v1_size % simd_width)
             g  == SimdLoop(tk, v1, v2, v2_size, simd_limit,
                       [i |-> 0, sum |-> [j \in 0..(simd_width - 1) |-> 0],
                        reads |-> {}])
             st == RemainderLoop("float", tk, v1, v2, v1_size, v2_size,
                       [i |-> g.i, result |-> HorizontalAdd(g.sum),
                        reads |-> g.reads, brk |-> FALSE])
         IN  [value |-> st.result, i |-> st.i, reads |-> st.reads]

-----------------------------------------------------------------------------
(* Timing aggregation.  A collector_t maps group -> tag -> duration; it is *)
(* modelled as a function from the <<group, tag>> pairs it holds to their  *)
(* durations (an inner map is never empty: operator[] creates group and    *)
(* tag together).  Durations are whole milliseconds, added exactly.        *)

Threads == {1, 2}
NoThread == 0
Groups == {"g1", "g2"}
Tags == {"A", "B"}
Durations == {0, 30, 70}
Keys == Groups \X Tags

EmptyMap == [k \in {} |-> 0]

\* m[group][tag] += d: operator[] creates an absent entry at zero first
AddTo(m, k, d) ==
    [x \in (DOMAIN m) \cup {k} |->
        IF x = k THEN (IF k \in DOMAIN m THEN m[k] ELSE 0) + d ELSE m[x]]

\* the groups a map holds, and the tags it holds for a group
GroupsOf(m) == {k[1] : k \in DOMAIN m}
TagsOf(m, g) == {k[2] : k \in {x \in DOMAIN m : x[1] = g}}

ColIdle == [pc |-> "idle", todo |-> {}, group |-> "", key |-> <<>>, old |-> 0]
RepIdle == [pc |-> "idle", left |-> {}, group |-> "", total |-> 0, out |-> <<>>,
            start |-> EmptyMap, merged |-> FALSE,
            quiet |-> TRUE, expected |-> EmptyMap]

AggStart ==
    /\ stopTimerAggregator = [t \in Threads |-> EmptyMap]
    /\ collection = EmptyMap
    /\ mutex_ = NoThread
    /\ col = [t \in Threads |-> ColIdle]
    /\ rep = RepIdle
    /\ hist = [ncalls |-> 0,
               expected |-> EmptyMap,
               before |-> [t \in Threads |-> EmptyMap],
               calls |-> [t \in Threads |-> 0],
               dirty |-> [t \in Threads |-> FALSE]]

\* no timer exists, no bridge call has been made, nothing is read out of bounds
\* debug: TIMER_DEBUG; reporter: the Reporter of StopTimerT; now: the clock;
\* timer, startTime: a Timer object; alive, group, stops: a StopTimerT object;
\* history: clockRead (the clock was read), printed (something was printed),
\* calls (the reporter calls of the last Done that reported), recorded and
\* reported (how many checkpoints were pushed, how many reporter calls made),
\* op (the last operation, when it is Done or the destructor) and noop (it
\* found nothing to report)
TimerOff == [debug |-> FALSE, reporter |-> "log", now |-> 0,
             clockRead |-> FALSE, printed |-> FALSE,
             timer |-> "none", startTime |-> 0,
             alive |-> FALSE, group |-> "", stops |-> <<>>,
             calls |-> <<>>, recorded |-> 0, reported |-> 0,
             op |-> "none", noop |-> FALSE]
\* fn: the bridge function that returned last; acquired, released: the array
\* element buffers it got and released, in call order; size1, size2: the
\* lengths v1_size and v2_size it computed; result: what it returned
JniIdle == [fn |-> "none", acquired |-> <<>>, released |-> <<>>,
            size1 |-> 0, size2 |-> 0, result |-> 0]

OtherStart ==
    /\ junk = 0
    /\ tm = TimerOff
    /\ jni = JniIdle

-----------------------------------------------------------------------------
(* Kernel calls: the inputs are drawn in the initial state, each action    *)
(* applies one kernel to them.  The bridge passes v1_size = the length of  *)
(* tokens and v2_size = the length of the dense vector.                    *)

v1_size == Len(tokens)
v2_size == Len(values2)

\* sparse weights of length n: all positive, or of alternating sign (int8 range)
SparseWeights(n) ==
    { [i \in 1..n |-> i], [i \in 1..n |-> IF i % 2 = 1 THEN -i ELSE i] }

\* the dense vector of length m: a different value at every index
DenseVector(m) == [j \in 1..m |-> 2 * j + 1]

NoRet == [value |-> 0, i |-> 0, reads |-> {}]
AccIdle == [pc |-> "off", n |-> 0, a |-> 0, b |-> 0, i |-> 0,
            result |-> 0, exact |-> 0]

InitInputs ==
    /\ \/ \E n \in 0..MaxLen :
              /\ tokens \in [1..n -> ScalarTokens]
              /\ values1 \in SparseWeights(n)
       \/ \E n \in 0..(simd_width + MaxTail) :
              /\ tokens \in [1..n -> SimdTokens]
              /\ values1 \in SparseWeights(n)
    /\ \E m \in 0..MaxDense : values2 = DenseVector(m)

Init ==
    /\ InitInputs
    /\ called = "none"
    /\ ret = NoRet
    /\ acc = AccIdle
    /\ AggStart
    /\ OtherStart

CallNative ==
    /\ called' = "native"
    /\ ret' = sparse_dot_product_native(tokens, values1, values2, v1_size, v2_size)
    /\ UNCHANGED <<tokens, values1, values2, acc>>
    /\ UNCHANGED <<aggVars, junk, tm, jni>>

CallInt8 ==
    /\ called' = "int8"
    /\ ret' = sparse_dot_product_native_int8(tokens, values1, values2, v1_size, v2_size)
    /\ UNCHANGED <<tokens, values1, values2, acc>>
    /\ UNCHANGED <<aggVars, junk, tm, jni>>

CallSimd ==
    /\ called' = "simd"
    /\ ret' = sparse_dot_product_simd(tokens, values1, values2, v1_size, v2_size)
    /\ UNCHANGED <<tokens, values1, values2, acc>>
    /\ UNCHANGED <<aggVars, junk, tm, jni>>

Next == CallNative \/ CallInt8 \/ CallSimd

Spec == Init /\ [][Next]_vars

\* the same calls on token arrays that hold negative tokens
InitSigned ==
    /\ \E n \in 0..(simd_width + MaxTail) :
          /\ tokens \in [1..n -> SignedTokens]
          /\ values1 \in SparseWeights(n)
    /\ \E m \in 0..MaxDense : values2 = DenseVector(m)
    /\ called = "none"
    /\ ret = NoRet
    /\ acc = AccIdle
    /\ AggStart
    /\ junk \in JunkValues
    /\ tm = TimerOff
    /\ jni = JniIdle

SpecSigned == InitSigned /\ [][Next]_vars

-----------------------------------------------------------------------------
(* One long call of sparse_dot_product_native_int8, followed element by    *)
(* element: v1_size = acc.n entries, every token 0, every sparse weight    *)
(* acc.a, a dense vector of the one element acc.b.  acc.result is the      *)
(* kernel's int accumulator, acc.exact the unbounded sum of the products   *)
(* added so far.                                                           *)

Int8Extremes == {INT8_MIN, -1, 1, INT8_MAX}

accTokens == [j \in 1..acc.n |-> 0]
accValues1 == [j \in 1..acc.n |-> acc.a]
accValues2 == <<acc.b>>
accLimit == acc.n - (acc.n % unroll_factor)

InitAcc ==
    /\ tokens = <<>> /\ values1 = <<>> /\ values2 = <<>>
    /\ called = "none"
    /\ ret = NoRet
    /\ \E n \in (MaxProducts - 3)..MaxProducts, a \in Int8Extremes, b \in Int8Extremes :
          acc = [pc |-> "call", n |-> n, a |-> a, b |-> b, i |-> 0,
                 result |-> 0, exact |-> 0]
    /\ AggStart
    /\ OtherStart

\* int result = 0; if (v1_size == 0 || v2_size == 0) return 0; ... size_t i = 0;
AccEnter ==
    /\ acc.pc = "call"
    /\ acc' = [acc EXCEPT !.pc = IF acc.n = 0 \/ Len(accValues2) = 0
                                  THEN "done" ELSE "loop",
                          !.i = 0, !.result = 0, !.exact = 0]
    /\ UNCHANGED kernelVars
    /\ UNCHANGED <<aggVars, junk, tm, jni>>

\* what one guarded element does to the run
AccElement ==
    LET e == Element("int8", accTokens, accValues1, accValues2, Len(accValues2),
                     acc.result, {}, acc.i)
    IN  IF e.brk
        THEN [acc EXCEPT !.pc = "done"]
        ELSE [acc EXCEPT !.i = acc.i + 1, !.result = e.result,
                         !.exact = acc.exact + acc.a * acc.b]

\* one of the four elements of an iteration of the unrolled loop
AccMain ==
    /\ acc.pc = "loop"
    /\ acc.i < accLimit
    /\ acc' = AccElement
    /\ UNCHANGED kernelVars
    /\ UNCHANGED <<aggVars, junk, tm, jni>>

\* one iteration of the remainder loop
AccRemainder ==
    /\ acc.pc = "loop"
    /\ acc.i >= accLimit
    /\ acc.i < acc.n
    /\ acc' = AccElement
    /\ UNCHANGED kernelVars
    /\ UNCHANGED <<aggVars, junk, tm, jni>>

\* return result;
AccReturn ==
    /\ acc.pc = "loop"
    /\ acc.i >= acc.n
    /\ acc' = [acc EXCEPT !.pc = "done"]
    /\ UNCHANGED kernelVars
    /\ UNCHANGED <<aggVars, junk, tm, jni>>

NextAcc == AccEnter \/ AccMain \/ AccRemainder \/ AccReturn

SpecAcc == InitAcc /\ [][NextAcc]_vars

-----------------------------------------------------------------------------
(* The operations of the timing aggregation.                               *)

InitAgg ==
    /\ tokens = <<>> /\ values1 = <<>> /\ values2 = <<>>
    /\ called = "none"
    /\ ret = NoRet
    /\ acc = AccIdle
    /\ AggStart
    /\ OtherStart

\* a reporter that assigns the duration instead of adding it
AggregatedReportAssign(t, group, tag, diff) ==
    /\ col[t].pc = "idle"
    /\ hist.ncalls < MaxCalls
    /\ stopTimerAggregator' =
         [stopTimerAggregator EXCEPT ![t] =
             [x \in (DOMAIN @) \cup {<<group, tag>>} |->
                 IF x = <<group, tag>> THEN diff ELSE @[x]]]
    /\ hist' = [hist EXCEPT !.ncalls = @ + 1,
                            !.dirty[t] = @ \/ hist.calls[t] > 0]
    /\ UNCHANGED <<collection, mutex_, col, rep>>
    /\ UNCHANGED <<kernelVars, acc, junk, tm, jni>>

\* AggregatedReporter::report(group, tag, diff) on thread t:
\*   stopTimerAggregator[group][tag] += diff;
AggregatedReport(t, group, tag, diff) ==
    /\ col[t].pc = "idle"
    /\ hist.ncalls < MaxCalls
    /\ stopTimerAggregator' =
         [stopTimerAggregator EXCEPT ![t] = AddTo(@, <<group, tag>>, diff)]
    /\ hist' = [hist EXCEPT !.ncalls = @ + 1,
                            !.dirty[t] = @ \/ hist.calls[t] > 0]
    /\ UNCHANGED <<collection, mutex_, col, rep>>
    /\ UNCHANGED <<kernelVars, acc, junk, tm, jni>>

\* collect() that does not wait for the mutex
CollectWithoutLock(t) ==
    /\ col[t].pc = "idle"
    /\ hist.ncalls < MaxCalls
    /\ mutex_' = t
    /\ col' = [col EXCEPT ![t] = [pc |-> "next", todo |-> DOMAIN stopTimerAggregator[t],
                                  group |-> "", key |-> <<>>, old |-> 0]]
    /\ hist' = [hist EXCEPT !.ncalls = @ + 1,
                            !.before[t] = collection,
                            !.expected = [k \in (DOMAIN @) \cup DOMAIN stopTimerAggregator[t] |->
                                            (IF k \in DOMAIN @ THEN @[k] ELSE 0)
                                            + (IF k \in DOMAIN stopTimerAggregator[t]
                                               THEN stopTimerAggregator[t][k] ELSE 0)]]
    /\ UNCHANGED <<stopTimerAggregator, collection, rep>>
    /\ UNCHANGED <<kernelVars, acc, junk, tm, jni>>

\* StopTimerAggregator::collect() on thread t, up to the lock:
\*   std::lock_guard<std::mutex> lock(mutex_);
\* the thread goes on only once the mutex is free.
CollectLock(t) ==
    /\ col[t].pc = "idle"
    /\ hist.ncalls < MaxCalls
    /\ mutex_ = NoThread
    /\ mutex_' = t
    /\ col' = [col EXCEPT ![t] = [pc |-> "next", todo |-> DOMAIN stopTimerAggregator[t],
                                  group |-> "", key |-> <<>>, old |-> 0]]
    /\ hist' = [hist EXCEPT !.ncalls = @ + 1,
                            !.before[t] = collection,
                            !.expected = [k \in (DOMAIN @) \cup DOMAIN stopTimerAggregator[t] |->
                                            (IF k \in DOMAIN @ THEN @[k] ELSE 0)
                                            + (IF k \in DOMAIN stopTimerAggregator[t]
                                               THEN stopTimerAggregator[t][k] ELSE 0)]]
    /\ UNCHANGED <<stopTimerAggregator, collection, rep>>
    /\ UNCHANGED <<kernelVars, acc, junk, tm, jni>>

\* the entries the nested loops of collect() may visit next: the tags of the
\* group being walked first, then any other group (the maps are unordered)
NextKeys(c) ==
    LET same == {k \in c.todo : k[1] = c.group}
    IN  IF same # {} THEN same ELSE c.todo

\* collection[group][tag] += duration, first half: operator[] finds the
\* Aggregator's entry, creating it at zero if absent, and its value is read
CollectRead(t) ==
    /\ col[t].pc = "next"
    /\ \E k \in NextKeys(col[t]) :
          /\ collection' = AddTo(collection, k, 0)
          /\ col' = [col EXCEPT ![t] = [pc |-> "add", todo |-> col[t].todo \ {k},
                                        group |-> k[1], key |-> k,
                                        old |-> collection'[k]]]
    /\ rep' = [rep EXCEPT !.merged = @ \/ rep.pc # "idle"]
    /\ UNCHANGED <<stopTimerAggregator, mutex_, hist>>
    /\ UNCHANGED <<kernelVars, acc, junk, tm, jni>>

\* collect() that assigns the duration instead of adding it
CollectAssign(t) ==
    /\ col[t].pc = "add"
    /\ collection' =
         [x \in (DOMAIN collection) \cup {col[t].key} |->
             IF x = col[t].key
             THEN stopTimerAggregator[t][col[t].key]
             ELSE collection[x]]
    /\ col' = [col EXCEPT ![t].pc = "next"]
    /\ rep' = [rep EXCEPT !.merged = @ \/ rep.pc # "idle"]
    /\ UNCHANGED <<stopTimerAggregator, mutex_, hist>>
    /\ UNCHANGED <<kernelVars, acc, junk, tm, jni>>

\* collect() that moves the entry out of the thread's collector
CollectMove(t) ==
    /\ col[t].pc = "add"
    /\ collection' =
         [x \in (DOMAIN collection) \cup {col[t].key} |->
             IF x = col[t].key
             THEN col[t].old + stopTimerAggregator[t][col[t].key]
             ELSE collection[x]]
    /\ stopTimerAggregator' =
         [stopTimerAggregator EXCEPT ![t] =
             [x \in (DOMAIN @) \ {col[t].key} |-> @[x]]]
    /\ col' = [col EXCEPT ![t].pc = "next"]
    /\ rep' = [rep EXCEPT !.merged = @ \/ rep.pc # "idle"]
    /\ UNCHANGED <<mutex_, hist>>
    /\ UNCHANGED <<kernelVars, acc, junk, tm, jni>>

\* collection[group][tag] += duration, second half: store the sum
CollectAdd(t) ==
    /\ col[t].pc = "add"
    /\ collection' =
         [x \in (DOMAIN collection) \cup {col[t].key} |->
             IF x = col[t].key
             THEN col[t].old + stopTimerAggregator[t][col[t].key]
             ELSE collection[x]]
    /\ col' = [col EXCEPT ![t].pc = "next"]
    /\ rep' = [rep EXCEPT !.merged = @ \/ rep.pc # "idle"]
    /\ UNCHANGED <<stopTimerAggregator, mutex_, hist>>
    /\ UNCHANGED <<kernelVars, acc, junk, tm, jni>>

\* the end of collect(): the loops are over, the lock_guard releases the mutex
CollectUnlock(t) ==
    /\ col[t].pc = "next"
    /\ col[t].todo = {}
    /\ mutex_' = NoThread
    /\ col' = [col EXCEPT ![t] = ColIdle]
    /\ hist' = [hist EXCEPT !.calls[t] = @ + 1, !.before[t] = EmptyMap]
    /\ UNCHANGED <<stopTimerAggregator, collection, rep>>
    /\ UNCHANGED <<kernelVars, acc, junk, tm, jni>>

\* double percentage = (duration.count() / total) * 100, as the exact fraction
\* num / den; a zero total gives 0.0 / 0.0 (not a number) or d / 0.0 (infinite)
Percentage(duration, total) ==
    IF total = 0
    THEN [num |-> IF duration = 0 THEN 0 ELSE 1, den |-> 0]
    ELSE [num |-> duration * 100, den |-> total]

IsNaN(p) == p.den = 0 /\ p.num = 0
IsInf(p) == p.den = 0 /\ p.num # 0

RECURSIVE SumMap(_, _)
SumMap(m, S) ==
    IF S = {} THEN 0
    ELSE LET k == CHOOSE x \in S : TRUE IN m[k] + SumMap(m, S \ {k})

\* a total that is not reset for each group
GroupTotalOfAll(m, g) == SumMap(m, DOMAIN m)

\* double total = 0; for (auto& [tag, duration] : group_collection) total += ...
GroupTotal(m, g) == SumMap(m, {k \in DOMAIN m : k[1] = g})

\* the orders in which an unordered map may hand out the tags S
Orders(S) ==
    {o \in [1..Cardinality(S) -> S] : \A i, j \in 1..Cardinality(S) : i # j => o[i] # o[j]}

\* tag lines whose first line, not the last, gets the last-item prefix
TagLinesMarkFirst(m, g, o, total) ==
    [i \in 1..Len(o) |->
        [kind |-> "tag", group |-> g, tag |-> o[i],
         duration |-> m[<<g, o[i]>>],
         percentage |-> Percentage(m[<<g, o[i]>>], total),
         last |-> (i = 1)]]

\* the tag lines of group g, in iteration order o, against the total computed
\* before; last: the line gets the prefix of the last item
TagLines(m, g, o, total) ==
    [i \in 1..Len(o) |->
        [kind |-> "tag", group |-> g, tag |-> o[i],
         duration |-> m[<<g, o[i]>>],
         percentage |-> Percentage(m[<<g, o[i]>>], total),
         last |-> (i = Len(o))]]

\* a report() that takes the Aggregator's mutex first
ReportBeginWithLock ==
    /\ rep.pc \in {"idle", "done"}
    /\ hist.ncalls < MaxCalls
    /\ mutex_ = NoThread
    /\ mutex_' = 3
    /\ rep' = [pc |-> "group", left |-> GroupsOf(collection), group |-> "",
               total |-> 0, out |-> <<>>, start |-> collection, merged |-> FALSE,
               quiet |-> (\A t \in Threads : col[t].pc = "idle"),
               expected |-> hist.expected]
    /\ hist' = [hist EXCEPT !.ncalls = @ + 1]
    /\ UNCHANGED <<stopTimerAggregator, collection, col>>
    /\ UNCHANGED <<kernelVars, acc, junk, tm, jni>>

\* StopTimerAggregator::report() starts walking the groups of the collection
ReportBegin ==
    /\ rep.pc \in {"idle", "done"}
    /\ hist.ncalls < MaxCalls
    /\ rep' = [pc |-> "group", left |-> GroupsOf(collection), group |-> "",
               total |-> 0, out |-> <<>>, start |-> collection, merged |-> FALSE,
               quiet |-> (\A t \in Threads : col[t].pc = "idle"),
               expected |-> hist.expected]
    /\ hist' = [hist EXCEPT !.ncalls = @ + 1]
    /\ UNCHANGED <<stopTimerAggregator, collection, mutex_, col>>
    /\ UNCHANGED <<kernelVars, acc, junk, tm, jni>>

\* the next group: its name is printed and its total computed
ReportTotal ==
    /\ rep.pc = "group"
    /\ \E g \in rep.left :
          rep' = [rep EXCEPT !.pc = "lines", !.group = g,
                             !.total = GroupTotal(collection, g),
                             !.out = Append(@, [kind |-> "group", group |-> g])]
    /\ UNCHANGED <<stopTimerAggregator, collection, mutex_, col, hist>>
    /\ UNCHANGED <<kernelVars, acc, junk, tm, jni>>

\* the tag lines of that group, each with its share of the total
ReportLines ==
    /\ rep.pc = "lines"
    /\ \E o \in Orders(TagsOf(collection, rep.group)) :
          rep' = [rep EXCEPT !.pc = "group", !.left = @ \ {rep.group},
                             !.out = @ \o TagLines(collection, rep.group, o, rep.total)]
    /\ UNCHANGED <<stopTimerAggregator, collection, mutex_, col, hist>>
    /\ UNCHANGED <<kernelVars, acc, junk, tm, jni>>

\* every group has been printed
ReportEnd ==
    /\ rep.pc = "group"
    /\ rep.left = {}
    /\ rep' = [rep EXCEPT !.pc = "done"]
    /\ UNCHANGED <<stopTimerAggregator, collection, mutex_, col, hist>>
    /\ UNCHANGED <<kernelVars, acc, junk, tm, jni>>

NextAgg ==
    \/ \E t \in Threads, g \in Groups, tag \in Tags, d \in Durations :
          AggregatedReport(t, g, tag, d)
    \/ \E t \in Threads : CollectLock(t)
    \/ \E t \in Threads : CollectRead(t)
    \/ \E t \in Threads : CollectAdd(t)
    \/ \E t \in Threads : CollectUnlock(t)
    \/ ReportBegin
    \/ ReportTotal
    \/ ReportLines
    \/ ReportEnd

SpecAgg == InitAgg /\ [][NextAgg]_vars

-----------------------------------------------------------------------------
(* Timer.h: the single-scope Timer and the multi-segment StopTimerT, with   *)
(* the clock as a counter that Tick advances.                               *)

MaxTime == 2
MaxStops == 3

Reporters == {"log", "aggregated"}

\* the thread the timers of this specification run on
TimerThread == CHOOSE t \in Threads : \A u \in Threads : t <= u

InitTimer ==
    /\ tokens = <<>> /\ values1 = <<>> /\ values2 = <<>>
    /\ called = "none"
    /\ ret = NoRet
    /\ acc = AccIdle
    /\ AggStart
    /\ junk = 0
    /\ jni = JniIdle
    /\ \E d \in BOOLEAN, r \in Reporters :
          tm = [TimerOff EXCEPT !.debug = d, !.reporter = r]

\* time passes
Tick ==
    /\ tm.now < MaxTime
    /\ tm' = [tm EXCEPT !.now = @ + 1, !.op = "none", !.noop = FALSE]
    /\ UNCHANGED <<kernelVars, acc, aggVars, junk, jni>>

\* Timer::Timer(tag, count): startTime = now()
TimerConstruct ==
    /\ tm.timer = "none"
    /\ tm' = [tm EXCEPT !.timer = "alive", !.startTime = tm.now,
                        !.clockRead = TRUE, !.op = "none", !.noop = FALSE]
    /\ UNCHANGED <<kernelVars, acc, aggVars, junk, jni>>

\* Timer::~Timer(): nothing unless TIMER_DEBUG, else Get() and a printed line
TimerDestroy ==
    /\ tm.timer = "alive"
    /\ tm' = IF ~tm.debug
             THEN [tm EXCEPT !.timer = "none", !.startTime = 0,
                             !.op = "none", !.noop = FALSE]
             ELSE [tm EXCEPT !.timer = "none", !.startTime = 0,
                             !.op = "none", !.noop = FALSE,
                             !.clockRead = TRUE, !.printed = TRUE]
    /\ UNCHANGED <<kernelVars, acc, aggVars, junk, jni>>

\* StopTimerT::StopTimerT(group)
StopTimerConstruct(group) ==
    /\ ~tm.alive
    /\ tm' = [tm EXCEPT !.alive = TRUE, !.group = group, !.stops = <<>>,
                        !.op = "none", !.noop = FALSE]
    /\ UNCHANGED <<kernelVars, acc, aggVars, junk, jni>>

\* StopTimerT::Stop(tag): nothing unless TIMER_DEBUG, else push {now(), tag}
Stop(tag) ==
    /\ tm.alive
    /\ tm.recorded < MaxStops
    /\ tm' = IF ~tm.debug
             THEN [tm EXCEPT !.op = "none", !.noop = FALSE]
             ELSE [tm EXCEPT !.op = "none", !.noop = FALSE,
                             !.clockRead = TRUE,
                             !.stops = Append(@, [time |-> tm.now, tag |-> tag]),
                             !.recorded = @ + 1]
    /\ UNCHANGED <<kernelVars, acc, aggVars, junk, jni>>

\* a walk that labels each interval with the later checkpoint's tag
DoneCallsLaterTag(stops, group) ==
    [i \in 1..(Len(stops) - 1) |->
        [group |-> group, tag |-> stops[i + 1].tag,
         d |-> stops[i + 1].time - stops[i].time]]

\* the reporter calls of Done's loop over stops (the "end" checkpoint appended):
\* each consecutive pair under last_tag, the tag of the earlier one
DoneCalls(stops, group) ==
    [i \in 1..(Len(stops) - 1) |->
        [group |-> group, tag |-> stops[i].tag,
         d |-> stops[i + 1].time - stops[i].time]]

\* AggregatedReporter::report for each call in turn, on the collector m
RECURSIVE ReportEach(_, _)
ReportEach(m, calls) ==
    IF calls = <<>> THEN m
    ELSE ReportEach(AddTo(m, <<Head(calls).group, Head(calls).tag>>, Head(calls).d),
                    Tail(calls))

\* a Done that reports and leaves the checkpoints in place
DoneKeepStops(op) ==
    /\ tm.alive
    /\ IF ~tm.debug \/ tm.stops = <<>>
       THEN /\ tm' = [tm EXCEPT !.op = op, !.noop = TRUE, !.alive = (op = "Done")]
            /\ UNCHANGED stopTimerAggregator
       ELSE LET new == DoneCalls(Append(tm.stops, [time |-> tm.now, tag |-> "end"]),
                                 tm.group)
            IN  /\ tm' = [tm EXCEPT !.op = op, !.noop = FALSE,
                                    !.alive = (op = "Done"),
                                    !.clockRead = TRUE,
                                    !.printed = @ \/ tm.reporter = "log",
                                    !.calls = new,
                                    !.reported = @ + Len(new)]
                /\ stopTimerAggregator' =
                     IF tm.reporter = "aggregated"
                     THEN [stopTimerAggregator EXCEPT ![TimerThread] =
                                                         ReportEach(@, new)]
                     ELSE stopTimerAggregator
    /\ UNCHANGED <<collection, mutex_, col, rep, hist>>
    /\ UNCHANGED <<kernelVars, acc, junk, jni>>

\* StopTimerT::Done() (op "Done"), and ~StopTimerT(), which calls
\* it (op "~StopTimerT"): nothing unless TIMER_DEBUG and stops is not empty,
\* else push {now(), "end"}, report every consecutive pair, clear
Done(op) ==
    /\ tm.alive
    /\ IF ~tm.debug \/ tm.stops = <<>>
       THEN /\ tm' = [tm EXCEPT !.op = op, !.noop = TRUE, !.alive = (op = "Done")]
            /\ UNCHANGED stopTimerAggregator
       ELSE LET new == DoneCalls(Append(tm.stops, [time |-> tm.now, tag |-> "end"]),
                                 tm.group)
            IN  /\ tm' = [tm EXCEPT !.op = op, !.noop = FALSE,
                                    !.alive = (op = "Done"),
                                    !.clockRead = TRUE,
                                    !.printed = @ \/ tm.reporter = "log",
                                    !.calls = new,
                                    !.reported = @ + Len(new),
                                    !.stops = <<>>]
                /\ stopTimerAggregator' =
                     IF tm.reporter = "aggregated"
                     THEN [stopTimerAggregator EXCEPT ![TimerThread] =
                                                         ReportEach(@, new)]
                     ELSE stopTimerAggregator
    /\ UNCHANGED <<collection, mutex_, col, rep, hist>>
    /\ UNCHANGED <<kernelVars, acc, junk, jni>>

NextTimer ==
    \/ Tick
    \/ TimerConstruct
    \/ TimerDestroy
    \/ \E g \in Groups : StopTimerConstruct(g)
    \/ \E tag \in Tags : Stop(tag)
    \/ Done("Done")
    \/ Done("~StopTimerT")

SpecTimer == InitTimer /\ [][NextTimer]_vars

-----------------------------------------------------------------------------
(* main.cpp: the JNI bridge functions dp (Java arrays) and dp3 (direct      *)
(* buffers), with the loops they inline.  A loop state is [i, result, brk]. *)

sizeof_short == 2
sizeof_float == 4

\* if (t1[idx] >= v2_size) break;  result += RET_T(v1[idx]) * v2[t1[idx]];
BridgeElement(t1, v1, v2, size2, result, idx) ==
    IF t1[idx + 1] >= size2
    THEN [brk |-> TRUE, result |-> result]
    ELSE [brk |-> FALSE,
          result |-> result + v1[idx + 1] * Values2At(v2, t1[idx + 1])]

\* an inlined iteration whose break at the second element forgets ++i
BridgeBlockNoAdvance(t1, v1, v2, size2, st) ==
    LET i  == st.i
        e0 == BridgeElement(t1, v1, v2, size2, st.result, i)
        e1 == BridgeElement(t1, v1, v2, size2, e0.result, i + 1)
        e2 == BridgeElement(t1, v1, v2, size2, e1.result, i + 2)
        e3 == BridgeElement(t1, v1, v2, size2, e2.result, i + 3)
    IN  IF e0.brk THEN [i |-> i, result |-> e0.result, brk |-> TRUE]
        ELSE IF e1.brk THEN [i |-> i, result |-> e1.result, brk |-> TRUE]
        ELSE IF e2.brk THEN [i |-> i + 2, result |-> e2.result, brk |-> TRUE]
        ELSE IF e3.brk THEN [i |-> i + 3, result |-> e3.result, brk |-> TRUE]
        ELSE [i |-> i + unroll_factor, result |-> e3.result, brk |-> FALSE]

\* one iteration of the inlined main loop (const size_t unroll_factor = 4)
BridgeBlock(t1, v1, v2, size2, st) ==
    LET i  == st.i
        e0 == BridgeElement(t1, v1, v2, size2, st.result, i)
        e1 == BridgeElement(t1, v1, v2, size2, e0.result, i + 1)
        e2 == BridgeElement(t1, v1, v2, size2, e1.result, i + 2)
        e3 == BridgeElement(t1, v1, v2, size2, e2.result, i + 3)
    IN  IF e0.brk THEN [i |-> i, result |-> e0.result, brk |-> TRUE]
        ELSE IF e1.brk THEN [i |-> i + 1, result |-> e1.result, brk |-> TRUE]
        ELSE IF e2.brk THEN [i |-> i + 2, result |-> e2.result, brk |-> TRUE]
        ELSE IF e3.brk THEN [i |-> i + 3, result |-> e3.result, brk |-> TRUE]
        ELSE [i |-> i + unroll_factor, result |-> e3.result, brk |-> FALSE]

\* for (; i < limit; i += unroll_factor) { ... }
RECURSIVE BridgeMainLoop(_, _, _, _, _, _)
BridgeMainLoop(t1, v1, v2, size2, limit, st) ==
    IF st.i < limit
    THEN LET b == BridgeBlock(t1, v1, v2, size2, st)
         IN  IF b.brk THEN b ELSE BridgeMainLoop(t1, v1, v2, size2, limit, b)
    ELSE st

\* for (; i < v1_size; ++i) { if (t1[i] >= v2_size) break; result += ...; }
RECURSIVE BridgeRemainder(_, _, _, _, _, _)
BridgeRemainder(t1, v1, v2, size1, size2, st) ==
    IF st.i < size1
    THEN LET e == BridgeElement(t1, v1, v2, size2, st.result, st.i)
         IN  IF e.brk THEN [i |-> st.i, result |-> e.result, brk |-> TRUE]
             ELSE BridgeRemainder(t1, v1, v2, size1, size2,
                      [i |-> st.i + 1, result |-> e.result, brk |-> FALSE])
    ELSE st

\* the two loops, entered with both lengths non-zero
BridgeLoops(t1, v1, v2, size1, size2) ==
    LET limit == size1 - (size1 % unroll_factor)
        st1 == BridgeMainLoop(t1, v1, v2, size2, limit,
                              [i |-> 0, result |-> 0, brk |-> FALSE])
    IN  BridgeRemainder(t1, v1, v2, size1, size2, [st1 EXCEPT !.brk = FALSE]).result

InitJni ==
    /\ \E n \in 0..(unroll_factor + MaxTail) :
          /\ tokens \in [1..n -> ScalarTokens]
          /\ values1 \in SparseWeights(n)
    /\ \E m \in 0..MaxDense : values2 = DenseVector(m)
    /\ called = "none"
    /\ ret = NoRet
    /\ acc = AccIdle
    /\ AggStart
    /\ OtherStart

\* Java_..._NativeLibrary_dp(tokens1, values1, values2)
Dp ==
    LET got == <<"tokens1", "values1", "values2">>
        size1 == Len(tokens)
        size2 == Len(values2)
    IN  /\ jni' = IF size1 = 0 \/ size2 = 0
                  THEN [fn |-> "dp", acquired |-> got, released |-> <<>>,
                        size1 |-> size1, size2 |-> size2, result |-> 0]
                  ELSE [fn |-> "dp", acquired |-> got, released |-> got,
                        size1 |-> size1, size2 |-> size2,
                        result |-> BridgeLoops(tokens, values1, values2,
                                               size1, size2)]
        /\ UNCHANGED <<kernelVars, acc, aggVars, junk, tm>>

\* Java_..._NativeLibrary_dp3(tokens1, values1, values2): direct buffers of
\* capacities cap1 and cap2, the lengths are capacity / sizeof(element)
Dp3(cap1, cap2) ==
    LET size1 == cap1 \div sizeof_short
        size2 == cap2 \div sizeof_float
    IN  /\ jni' = IF size1 = 0 \/ size2 = 0
                  THEN [fn |-> "dp3", acquired |-> <<>>, released |-> <<>>,
                        size1 |-> size1, size2 |-> size2, result |-> 0]
                  ELSE [fn |-> "dp3", acquired |-> <<>>, released |-> <<>>,
                        size1 |-> size1, size2 |-> size2,
                        result |-> BridgeLoops(tokens, values1, values2,
                                               size1, size2)]
        /\ UNCHANGED <<kernelVars, acc, aggVars, junk, tm>>

\* the capacities of direct buffers that hold the tokens and the dense vector:
\* whole elements, or a last element cut short
NextJni ==
    \/ Dp
    \/ \E cap1 \in {sizeof_short * Len(tokens), sizeof_short * Len(tokens) + 1},
          cap2 \in {sizeof_float * Len(values2), sizeof_float * Len(values2) + 3} :
          Dp3(cap1, cap2)

SpecJni == InitJni /\ [][NextJni]_vars

-----------------------------------------------------------------------------
(* What the kernels are specified to return, stated without the loops.     *)

\* values1[i] * values2[tokens[i]] of the current inputs
Term(i) == values1[i + 1] * values2[tokens[i + 1] + 1]

RECURSIVE SumTerms(_)
SumTerms(S) ==
    IF S = {} THEN 0
    ELSE LET x == CHOOSE y \in S : TRUE IN Term(x) + SumTerms(S \ {x})

InRangeAt(i) == tokens[i + 1] < v2_size

\* the smallest index >= from whose token is out of range, v1_size if none
FirstOutFrom(from) ==
    LET out == {k \in from..(v1_size - 1) : ~InRangeAt(k)}
    IN  IF out = {} THEN v1_size ELSE CHOOSE k \in out : \A j \in out : k <= j

\* the indices of values1 a call has read
Values1Read == {r[2] : r \in {q \in ret.reads : q[1] = "values1"}}

NonNegativeTokens == \A i \in 1..v1_size : tokens[i] >= 0

\* C1: for v1_size > 0, v2_size > 0 and non-negative tokens, both scalar
\* kernels return the sum of values1[i] * values2[tokens[i]] over exactly the
\* indices below the first out-of-range token (all indices if there is none):
\* none below it is skipped, none is added twice, none at or after it is added.
C1_ScalarPrefixSum ==
    (called \in {"native", "int8"} /\ v1_size > 0 /\ v2_size > 0 /\ NonNegativeTokens)
        => /\ ret.value = SumTerms(0..(FirstOutFrom(0) - 1))
           /\ Values1Read = 0..(FirstOutFrom(0) - 1)

\* a break at the third position of an unrolled block, an in-range token after it
C1_Witness ==
    /\ called = "native"
    /\ v2_size = 2
    /\ v1_size = 7
    /\ SubSeq(tokens, 1, 4) = <<0, 1, 2, 0>>
    /\ ret.value = values1[1] * values2[1] + values1[2] * values2[2]
    /\ ret.value # 0

\* C2: with v1_size = 0 or v2_size = 0 every kernel returns exactly zero and
\* reads no element of tokens, values1 or values2.
C2_EmptyIsZero ==
    (called # "none" /\ (v1_size = 0 \/ v2_size = 0))
        => (ret.value = 0 /\ ret.reads = {})

C2_Witness ==
    /\ called = "simd"
    /\ v1_size = simd_width
    /\ v2_size = 0
    /\ ret.value = 0

\* C3: when every token is in [0, v2_size) the SIMD kernel returns what the
\* scalar float kernel returns (exact arithmetic), for every v1_size.
C3_SimdEqualsNativeInRange ==
    (called = "simd" /\ \A i \in 0..(v1_size - 1) : tokens[i + 1] >= 0 /\ InRangeAt(i))
        => ret.value =
             sparse_dot_product_native(tokens, values1, values2, v1_size, v2_size).value

C3_Witness ==
    /\ called = "simd"
    /\ v1_size = simd_width + 1
    /\ v2_size = 2
    /\ \E i \in 1..v1_size : tokens[i] = 1
    /\ ret.value # 0

\* the end of the whole SIMD groups
SimdLimit == v1_size - (v1_size % simd_width)

\* C4: in the SIMD kernel an out-of-range token inside the whole groups adds
\* zero and does not stop the processing (every in-range entry of the groups
\* is added); the trailing v1_size mod 8 entries stop at their first
\* out-of-range token.
C4_SimdZeroFillThenScalarTail ==
    (called = "simd" /\ v1_size > 0 /\ v2_size > 0 /\ NonNegativeTokens)
        => ret.value =
             SumTerms({i \in 0..(SimdLimit - 1) : InRangeAt(i)})
             + SumTerms(SimdLimit..(FirstOutFrom(SimdLimit) - 1))

\* an out-of-range token followed by an in-range one inside a whole group and
\* inside the tail: the group goes on, the tail stops, and the scalar kernel
\* returns something else
C4_Witness ==
    /\ called = "simd"
    /\ v1_size = simd_width + 2
    /\ v2_size = 1
    /\ tokens[1] = 1 /\ tokens[2] = 0
    /\ tokens[simd_width + 1] = 1 /\ tokens[simd_width + 2] = 0
    /\ ret.value # 0
    /\ ret.value #
         sparse_dot_product_native(tokens, values1, values2, v1_size, v2_size).value

\* C5: in the int8 kernel, for v1_size <= 10000 and int8 values of any sign
\* and magnitude, the accumulator after every addition is the unbounded sum of
\* the products added so far and lies in the signed 32-bit range: it never
\* wraps and never flips sign.
C5_Int8AccumulatorExact ==
    (acc.pc \in {"loop", "done"})
        => /\ acc.result = acc.exact
           /\ acc.exact = acc.i * (acc.a * acc.b)
           /\ INT_MIN <= acc.exact /\ acc.exact <= INT_MAX

C5_Witness ==
    /\ acc.pc = "done"
    /\ acc.n = MaxProducts
    /\ acc.i = MaxProducts
    /\ acc.a = INT8_MIN /\ acc.b = INT8_MIN
    /\ acc.result = MaxProducts * (INT8_MIN * INT8_MIN)

-----------------------------------------------------------------------------
(* The timing aggregation's claims.                                        *)

AllIdle == \A t \in Threads : col[t].pc = "idle"

\* m1 + m2, entry by entry (an entry absent from one map counts as zero there)
MapPlus(m1, m2) ==
    [k \in (DOMAIN m1) \cup (DOMAIN m2) |->
        (IF k \in DOMAIN m1 THEN m1[k] ELSE 0) + (IF k \in DOMAIN m2 THEN m2[k] ELSE 0)]

\* C6: at most one thread is inside collect's merge loop at a time, and once
\* every collect call has returned the Aggregator holds, for each (group,
\* tag), the sum over all collect calls of the caller's collector value at
\* the time of the call: nothing is lost or counted in part.
C6_CollectSerializedAndComplete ==
    /\ Cardinality({t \in Threads : col[t].pc # "idle"}) <= 1
    /\ \A t \in Threads : col[t].pc # "idle" => mutex_ = t
    /\ AllIdle => collection = hist.expected

\* two threads each holding D = 30 for the same (group, tag) give 2D
C6_Witness ==
    /\ AllIdle
    /\ \A t \in Threads :
          /\ hist.calls[t] = 1
          /\ stopTimerAggregator[t] = [k \in {<<"g1", "A">>} |-> 30]
    /\ collection = [k \in {<<"g1", "A">>} |-> 60]

\* C7: collect adds, for every (group, tag) of the caller's collector, that
\* collector's duration to the Aggregator's entry (created at zero if absent)
\* and changes no other entry; k collects by one thread with an unchanged
\* collector leave k times that thread's contribution.
C7_CollectAdditive ==
    /\ \A t \in Threads :
          (col[t].pc = "next" /\ col[t].todo = {})
             => collection = MapPlus(hist.before[t], stopTimerAggregator[t])
    /\ \A t \in Threads :
          (/\ AllIdle
           /\ hist.calls[t] > 0
           /\ ~hist.dirty[t]
           /\ \A u \in Threads \ {t} : hist.calls[u] = 0)
             => collection = [k \in DOMAIN stopTimerAggregator[t] |->
                                 hist.calls[t] * stopTimerAggregator[t][k]]

\* collect called twice by thread 1 with an unchanged collector: twice its 30
C7_Witness ==
    /\ AllIdle
    /\ hist.calls[1] = 2 /\ hist.calls[2] = 0
    /\ ~hist.dirty[1]
    /\ stopTimerAggregator[1] = [k \in {<<"g1", "A">>} |-> 30]
    /\ collection = [k \in {<<"g1", "A">>} |-> 60]

\* C8: no step of collect changes a thread-local collector: after the call the
\* caller's collector holds the same entries with the same durations, and no
\* other thread's collector is written.
C8_CollectLeavesCollectors ==
    [][(col' # col) => (stopTimerAggregator' = stopTimerAggregator)]_vars

\* a collect that merged two entries has returned and the collector still holds them
C8_Witness ==
    /\ AllIdle
    /\ hist.calls[1] = 1
    /\ Cardinality(DOMAIN stopTimerAggregator[1]) = 2
    /\ collection = stopTimerAggregator[1]

\* the tag lines a finished report printed for group g
LinesOf(g) ==
    {i \in 1..Len(rep.out) : rep.out[i].kind = "tag" /\ rep.out[i].group = g}

RECURSIVE SumNum(_)
SumNum(S) ==
    IF S = {} THEN 0
    ELSE LET i == CHOOSE x \in S : TRUE IN rep.out[i].percentage.num + SumNum(S \ {i})

\* C9: a report that runs with no merge in flight prints, for every group,
\* one line per tag of that group with the share duration / total * 100, the
\* total being the sum of the durations of that group's tags only; for a
\* positive total the shares add up to 100; and the report leaves the
\* Aggregator's contents as they were.
C9_ReportShares ==
    (rep.pc = "done" /\ ~rep.merged)
        => /\ collection = rep.start
           /\ \A g \in Groups :
                LET tags  == {k[2] : k \in {x \in DOMAIN rep.start : x[1] = g}}
                    total == SumMap(rep.start, {x \in DOMAIN rep.start : x[1] = g})
                IN  /\ {rep.out[i].tag : i \in LinesOf(g)} = tags
                    /\ Cardinality(LinesOf(g)) = Cardinality(tags)
                    /\ \A i \in LinesOf(g) :
                          /\ rep.out[i].duration = rep.start[<<g, rep.out[i].tag>>]
                          /\ total > 0 =>
                               /\ rep.out[i].percentage.den = total
                               /\ rep.out[i].percentage.num = 100 * rep.out[i].duration
                    /\ (total > 0) => SumNum(LinesOf(g)) = 100 * total

\* a group with A = 30 and B = 70 is reported as 30% and 70%
C9_Witness ==
    /\ rep.pc = "done" /\ ~rep.merged
    /\ collection = [k \in {<<"g1", "A">>, <<"g1", "B">>} |->
                        IF k[2] = "A" THEN 30 ELSE 70]
    /\ \E i, j \in LinesOf("g1") :
          /\ rep.out[i].tag = "A"
          /\ rep.out[i].percentage.num = 30 * rep.out[i].percentage.den
          /\ rep.out[j].tag = "B"
          /\ rep.out[j].percentage.num = 70 * rep.out[j].percentage.den

\* C10: for a group whose total is zero the report prints a defined
\* percentage or leaves the group out: it never divides by the zero total and
\* never prints a not-a-number percentage.
C10_NoNaNPercentage ==
    ~rep.merged =>
        \A i \in 1..Len(rep.out) :
            rep.out[i].kind = "tag" => rep.out[i].percentage.den # 0

\* C11: the report renders the tags of a group in a fixed order that does not
\* depend on how the entries were inserted or stored: A's line always comes
\* before B's line.
C11_TagsInFixedOrder ==
    \A g \in Groups : \A i, j \in LinesOf(g) :
        (rep.out[i].tag = "A" /\ rep.out[j].tag = "B") => i < j

\* C15: report never takes or waits for the Aggregator's mutex, so a report
\* running beside a collect can total a group of which only some tags are
\* merged; a report that starts when no collect is running, and during which
\* none merges, prints for every (group, tag) the sum of the contributions of
\* all collect calls made.
C15_ReportUnsynchronized ==
    /\ []((rep.pc = "done" /\ rep.quiet /\ ~rep.merged)
            => /\ rep.start = rep.expected
               /\ \A i \in 1..Len(rep.out) :
                     rep.out[i].kind = "tag"
                        => rep.out[i].duration
                             = rep.expected[<<rep.out[i].group, rep.out[i].tag>>]
               /\ {<<rep.out[i].group, rep.out[i].tag>> :
                      i \in {j \in 1..Len(rep.out) : rep.out[j].kind = "tag"}}
                    = DOMAIN rep.expected)
    /\ [][(rep'.pc # rep.pc) => (mutex_' = mutex_)]_vars

\* thread 1 holds the mutex and has merged one of its two tags of g1 when the
\* report totals the group: the total is 30 or 70, not the 100 contributed
C15_Witness ==
    /\ rep.pc = "lines"
    /\ rep.group = "g1"
    /\ mutex_ = 1
    /\ col[1].pc # "idle"
    /\ stopTimerAggregator[1] = [k \in {<<"g1", "A">>, <<"g1", "B">>} |->
                                    IF k[2] = "A" THEN 30 ELSE 70]
    /\ rep.total \in {30, 70}
    /\ hist.expected[<<"g1", "A">>] + hist.expected[<<"g1", "B">>] = 100

\* C16: AggregatedReporter::report on thread T adds d to T's own collector
\* entry for (group, tag) and changes nothing else: no other thread's
\* collector, no Aggregator entry.  The Aggregator changes only inside
\* collect, a collector only through a report made on its thread.
C16_ReporterAddsToOwnCollector ==
    [][/\ (stopTimerAggregator' # stopTimerAggregator)
            => /\ collection' = collection
               /\ \E t \in Threads, k \in Keys, d \in Durations :
                     /\ col[t].pc = "idle"
                     /\ \A u \in Threads \ {t} :
                           stopTimerAggregator'[u] = stopTimerAggregator[u]
                     /\ DOMAIN stopTimerAggregator'[t]
                          = (DOMAIN stopTimerAggregator[t]) \cup {k}
                     /\ stopTimerAggregator'[t][k]
                          = (IF k \in DOMAIN stopTimerAggregator[t]
                             THEN stopTimerAggregator[t][k] ELSE 0) + d
                     /\ \A x \in (DOMAIN stopTimerAggregator[t]) \ {k} :
                           stopTimerAggregator'[t][x] = stopTimerAggregator[t][x]
       /\ (collection' # collection)
            => \E t \in Threads : col[t].pc # "idle" /\ mutex_ = t
      ]_vars

\* two reports of 30 for the same (group, tag) on thread 1 sum to 60
C16_Witness ==
    /\ hist.ncalls = 2
    /\ stopTimerAggregator[1] = [k \in {<<"g1", "A">>} |-> 60]
    /\ stopTimerAggregator[2] = EmptyMap
    /\ collection = EmptyMap

\* C17: in every group the report has rendered tag lines for, exactly one tag
\* line carries the last-item marker and it is the final tag line of the
\* group; a group with a single tag renders it with the last-item marker.
C17_LastItemMarker ==
    \A g \in Groups :
        LinesOf(g) # {} =>
            /\ Cardinality({i \in LinesOf(g) : rep.out[i].last}) = 1
            /\ \A i \in LinesOf(g) :
                  rep.out[i].last <=> (\A j \in LinesOf(g) : j <= i)

\* a group of two tags: the first line has the ordinary marker, the second the last-item one
C17_Witness ==
    /\ rep.pc = "done"
    /\ LinesOf("g1") = {2, 3}
    /\ ~rep.out[2].last
    /\ rep.out[3].last

\* the reporter calls made by a step of Done, and the sum of their durations
NewCalls == tm'.calls
RECURSIVE SumD(_)
SumD(calls) == IF calls = <<>> THEN 0 ELSE Head(calls).d + SumD(Tail(calls))
DoneStep == tm'.op \in {"Done", "~StopTimerT"}

\* C12: Done with k >= 1 checkpoints (t1,tag1)..(tk,tagk) and completion time
\* te calls the reporter exactly k times, in checkpoint order: the i-th call
\* carries the timer's group, tag_i and t_(i+1) - t_i, the last one tag_k and
\* te - tk; "end" is never a label, and the durations sum to te - t1.
C12_DoneReportsEachInterval ==
    [][(DoneStep /\ tm.debug /\ Len(tm.stops) >= 1) =>
          LET k == Len(tm.stops)
              te == tm.now
          IN  /\ Len(NewCalls) = k
              /\ \A i \in 1..k :
                    /\ NewCalls[i].group = tm.group
                    /\ NewCalls[i].tag = tm.stops[i].tag
                    /\ NewCalls[i].tag # "end"
                    /\ NewCalls[i].d = (IF i < k THEN tm.stops[i + 1].time ELSE te)
                                         - tm.stops[i].time
              /\ SumD(NewCalls) = te - tm.stops[1].time
      ]_vars

\* three checkpoints A, B, A at times 0, 1, 1 completed at time 2
C12_Witness ==
    /\ tm.op = "Done"
    /\ tm.stops = <<>>
    /\ Len(tm.calls) = 3
    /\ tm.calls[1] = [group |-> "g1", tag |-> "A", d |-> 1]
    /\ tm.calls[2] = [group |-> "g1", tag |-> "B", d |-> 0]
    /\ tm.calls[3] = [group |-> "g1", tag |-> "A", d |-> 1]

\* C13: after Done the checkpoint sequence is empty; a Done (or the
\* destructor) that finds no checkpoint reports nothing and changes nothing;
\* over any sequence of Stop, Done and destruction the number of reporter
\* calls made plus the checkpoints still held is the number recorded.
C13_DoneIdempotent ==
    /\ [](tm.op \in {"Done", "~StopTimerT"} => tm.stops = <<>>)
    /\ [](tm.reported + Len(tm.stops) = tm.recorded)
    /\ [][(DoneStep /\ tm.stops = <<>>) =>
             /\ tm'.calls = tm.calls
             /\ tm'.reported = tm.reported
             /\ tm'.stops = <<>>
             /\ tm'.printed = tm.printed
             /\ tm'.clockRead = tm.clockRead
             /\ stopTimerAggregator' = stopTimerAggregator
             /\ collection' = collection
      ]_vars

\* two checkpoints were reported by a Done, and a second Done found nothing
C13_Witness ==
    /\ tm.debug
    /\ tm.op = "Done"
    /\ tm.noop
    /\ tm.alive
    /\ tm.recorded = 2
    /\ tm.reported = 2
    /\ tm.stops = <<>>

\* C14: with the debug flag disabled no timing operation (Timer construction
\* and destruction, Stop, Done) reads the clock, prints, records a checkpoint
\* or modifies a collector.
C14_DisabledDoesNothing ==
    ~tm.debug =>
        /\ ~tm.clockRead
        /\ ~tm.printed
        /\ tm.stops = <<>>
        /\ tm.calls = <<>>
        /\ stopTimerAggregator = [t \in Threads |-> EmptyMap]

\* C18: every element access of the kernels is in bounds for arbitrary signed
\* 16-bit tokens: values2 is read at indices in [0, v2_size) only, tokens and
\* values1 at indices in [0, v1_size) only; a negative token never indexes
\* the dense vector.
C18_AccessesInBounds ==
    called # "none" =>
        \A r \in ret.reads :
            IF r[1] = "values2"
            THEN r[2] >= 0 /\ r[2] < v2_size
            ELSE r[2] >= 0 /\ r[2] < v1_size

\* how many times buffer b occurs in the sequence of calls q
Count(q, b) == Cardinality({i \in 1..Len(q) : q[i] = b})

\* C19: in the bridge function dp each of the three element buffers acquired
\* at entry (tokens1, values1, values2) is released exactly once on every
\* return path, the early return for an empty array included.
C19_BuffersReleasedOnce ==
    jni.fn = "dp" =>
        /\ Len(jni.acquired) = 3
        /\ \A b \in {"tokens1", "values1", "values2"} :
              Count(jni.acquired, b) = 1 /\ Count(jni.released, b) = 1

\* C20: the loops inlined in dp and dp3 return what sparse_dot_product_native
\* returns for the same tokens, weights, dense vector and lengths.
C20_BridgeEqualsNative ==
    jni.fn \in {"dp", "dp3"} =>
        jni.result = sparse_dot_product_native(tokens, values1, values2,
                                               jni.size1, jni.size2).value

\* dp3 on six tokens with the second out of range: one product, then the break
\* inside the unrolled block
C20_Witness ==
    /\ jni.fn = "dp3"
    /\ jni.size1 = 6
    /\ jni.size2 = 2
    /\ tokens[1] = 1
    /\ tokens[2] = 2
    /\ jni.result = values1[1] * values2[2]
    /\ jni.result # 0

====
